---- MODULE Spec2Model ----
(***************************************************************************)
(* Model of the beanstalk worker client of bary321/workers (src/client.go). *)
(*                                                                         *)
(* One process runs Client.Reserve (the scan/idle loop), one runs          *)
(* Client.quitOnSignal, one Client.work goroutine exists per reserved job. *)
(* The environment puts jobs into the broker's tubes, delivers termination *)
(* signals and calls Client.Stop.                                          *)
(*                                                                         *)
(* Go semantics the model keeps:                                           *)
(*  - a select with several ready cases takes any one of them; its default *)
(*    case is taken only when no other case is ready;                      *)
(*  - close of a closed (or nil) channel panics; Client.Stop unlocks c.mu  *)
(*    without defer, so a panic inside it leaves c.mu locked;              *)
(*  - deferred calls run last-in first-out, also while panicking;          *)
(*  - a panic that leaves a goroutine ends the whole process;              *)
(*  - ranging over a map visits every key once, in no specified order.     *)
(*                                                                         *)
(* Scope: one run of Reserve on a Client whose MaxControl has capacity of  *)
(* at least one.  Signals count from signal.Notify on (before it the       *)
(* default disposition ends the process).  A handler returns, panics, or   *)
(* runs for ever; Job.Delete and Job.Release are calls of the handler on   *)
(* the broker and change nothing the client keeps.                         *)
(***************************************************************************)
EXTENDS Integers, Sequences, FiniteSets, Bags, TLC

\* ---------------------------------------------------------------- bounds
MaxCap == 2        \* largest capacity of MaxControl tried (maxConcurrency)
MaxJobs == 2       \* jobs the producers put during one run

\* the tube names a WorkMux may have registered, in insertion order
MuxTubes == <<"t1", "t2">>

\* ------------------------------------------------------------ error values
NoErr == [type |-> "nil", Op |-> "", Err |-> ""]

\* var ErrClientHasQuit = errors.New("client has quit")
ErrClientHasQuit == [type |-> "error", Op |-> "", Err |-> "client has quit"]

\* the value a double close panics with
ClosePanic == [type |-> "panic", Op |-> "", Err |-> "close of closed channel"]

\* beanstalk.ConnError{Conn, Op, Err}
ConnError(op, err) == [type |-> "ConnError", Op |-> op, Err |-> err]

\* an error that is no beanstalk.ConnError
PlainError(err) == [type |-> "error", Op |-> "", Err |-> err]

\* the errors a call of TubeSet.Reserve can come back with
ReserveErrors ==
    {ConnError("reserve-with-timeout", e) : e \in {"ErrTimeout", "ErrDeadline", "EOF"}}
    \cup {ConnError("watch", "ErrTimeout"), PlainError("ErrTimeout")}

\* isTimeoutOrDeadline with the ErrDeadline cause forgotten
isTimeoutOnly(err) ==
    IF err.type = "ConnError"
    THEN err.Op = "reserve-with-timeout" /\ err.Err = "ErrTimeout"
    ELSE FALSE

\* func isTimeoutOrDeadline(err error) bool
isTimeoutOrDeadline(err) ==
    IF err.type = "ConnError"
    THEN err.Op = "reserve-with-timeout"
         /\ (err.Err = "ErrTimeout" \/ err.Err = "ErrDeadline")
    ELSE FALSE

\* ------------------------------------------------------------------ state
VARIABLES
    Handler,     \* c.Handler: [kind |-> "func"] or [kind |-> "mux", Tubes |-> seq]
    maxc,        \* cap(c.MaxControl)
    MaxControl,  \* len(c.MaxControl): admission tokens outstanding
    mu,          \* c.mu is locked
    stop,        \* c.stop: "nil", "open" or "closed"
    firedBy,     \* who closed c.stop: "", "caller", "signal", "fatal"
    pc,          \* where the goroutine running Reserve is
    tubes,       \* the keys of the map built by c.tubes
    todo,        \* keys the current range over tubes has not visited yet
    cur,         \* the tube of the reservation in flight
    scanGot,     \* jobs reserved per tube in the current range
    res,         \* id, body, err := tube.Reserve(0), while the loop handles them
    ret,         \* what Reserve left with: NoErr while running, an error, or a panic
    wg,          \* counter of the sync.WaitGroup
    conn,        \* bs: "open" or "closed"
    qpc,         \* where quitOnSignal is
    sigchan,     \* len(sigchan), capacity 1
    ready,       \* broker: ready jobs per tube, oldest first
    nextID,      \* broker: id of the next job put
    workers,     \* bag of [job, pc]: the Client.work goroutines
    reserved,    \* bag of [Tube, ID, Body]: what the broker has handed out
    invoked,     \* bag of jobs Handler.Work was called with
    alive,       \* the process is running
    panicked     \* the function whose panic ended or is unwinding: "", "Stop", ...

vars == <<Handler, maxc, MaxControl, mu, stop, firedBy, pc, tubes, todo, cur,
          scanGot, res, ret, wg, conn, qpc, sigchan, ready, nextID, workers, reserved, invoked, alive, panicked>>

Range(s) == {s[i] : i \in DOMAIN s}

AllTubes == Range(MuxTubes) \cup {"default"}

Handlers == {[kind |-> "func", Tubes |-> <<>>]}
            \cup {[kind |-> "mux", Tubes |-> SubSeq(MuxTubes, 1, n)] : n \in 0..Len(MuxTubes)}

\* func (c *Client) tubes(conn) map[string]*beanstalk.TubeSet: the keys
tubesOf(h) == IF h.kind = "mux" THEN Range(h.Tubes) ELSE {"default"}

\* NewJob(bs, name, id, body)
NewJob(bs, name, id, body) == [conn |-> bs, Tube |-> name, ID |-> id, Body |-> body]

One(x) == SetToBag({x})

\* the body producers give the job with this id
BodyOf(id) == <<"body", id>>

\* id, body, err of a reservation
Res(id, body, err) == [id |-> id, body |-> body, err |-> err]

NoRes == Res(0, <<>>, NoErr)

Init ==
    /\ Handler \in Handlers
    /\ maxc \in 1..MaxCap
    /\ MaxControl = 0
    /\ mu = FALSE
    /\ stop = "nil"
    /\ firedBy = ""
    /\ pc = "init"
    /\ tubes = {}
    /\ todo = {}
    /\ cur = ""
    /\ scanGot = [t \in AllTubes |-> 0]
    /\ res = NoRes
    /\ ret = NoErr
    /\ wg = 0
    /\ conn = "open"
    /\ qpc = "none"
    /\ sigchan = 0
    /\ ready = [t \in AllTubes |-> <<>>]
    /\ nextID = 1
    /\ workers = EmptyBag
    /\ reserved = EmptyBag
    /\ invoked = EmptyBag
    /\ alive = TRUE
    /\ panicked = ""


\* ------------------------------------------------- Client.Stop (l.97-101)
\* c.mu.Lock() is possible
CanLock == ~mu

\* close(c.stop) panics: the channel is nil or already closed
ClosePanics == stop # "open"

\* Stop as called by `who`: Lock, close, Unlock.  When close panics the
\* Unlock is never reached and c.mu stays locked.
Stop(who) ==
    /\ CanLock
    /\ IF ClosePanics
       THEN /\ mu' = TRUE
            /\ UNCHANGED <<stop, firedBy>>
       ELSE /\ stop' = "closed"
            /\ firedBy' = who
            /\ mu' = mu

\* a caller's goroutine calls c.Stop(); a panic there ends the process
CallStop ==
    /\ alive
    /\ Stop("caller")
    /\ IF ClosePanics
       THEN alive' = FALSE /\ panicked' = "Stop"
       ELSE UNCHANGED <<alive, panicked>>
    /\ UNCHANGED <<Handler, maxc, MaxControl, pc, tubes, todo, cur, scanGot, res,
                   ret, wg, conn, qpc, sigchan, ready, nextID, workers, reserved,
                   invoked>>

\* ------------------------------------------------ Client.Reserve (l.53-94)
\* l.54-64: make the stop channel, build the tubes, start quitOnSignal
ReserveStart ==
    /\ alive
    /\ pc = "init"
    /\ CanLock
    /\ stop' = "open"
    /\ tubes' = tubesOf(Handler)
    /\ todo' = tubesOf(Handler)
    /\ scanGot' = [t \in AllTubes |-> 0]
    /\ wg' = wg + 1
    /\ qpc' = "start"
    /\ pc' = "scan"
    /\ UNCHANGED <<Handler, maxc, MaxControl, mu, firedBy, cur, res, ret, conn,
                   sigchan, ready, nextID, workers, reserved, invoked, alive,
                   panicked>>

\* the send on MaxControl taken as if the channel had no capacity limit
CanAcquireUnbounded == TRUE

\* case c.MaxControl <- 0 is ready: the buffered channel has room
CanAcquire == MaxControl < maxc

\* case <-c.stop is ready: the channel is closed
StopReady == stop = "closed"

\* a range that does not move past the key it has visited
VisitAgain(t) == todo

\* the keys left to the range once it has visited t
Visit(t) == todo \ {t}

\* a poll that reserves from the first tube of the router whichever tube
\* the range is at
ScanAcquireFirst(t) ==
    /\ alive
    /\ pc = "scan"
    /\ t \in todo
    /\ CanAcquire
    /\ MaxControl' = MaxControl + 1
    /\ cur' = MuxTubes[1]
    /\ todo' = Visit(t)
    /\ pc' = "reserve"
    /\ UNCHANGED <<Handler, maxc, mu, stop, firedBy, tubes, scanGot, res, ret,
                   wg, conn, qpc, sigchan, ready, nextID, workers, reserved,
                   invoked, alive, panicked>>

\* l.70-71: the select takes the send on MaxControl for tube t
ScanAcquire(t) ==
    /\ alive
    /\ pc = "scan"
    /\ t \in todo
    /\ CanAcquire
    /\ MaxControl' = MaxControl + 1
    /\ cur' = t
    /\ todo' = Visit(t)
    /\ pc' = "reserve"
    /\ UNCHANGED <<Handler, maxc, mu, stop, firedBy, tubes, scanGot, res, ret,
                   wg, conn, qpc, sigchan, ready, nextID, workers, reserved,
                   invoked, alive, panicked>>

\* l.82-83: the select takes the receive on stop
ScanStop ==
    /\ alive
    /\ pc = "scan"
    /\ todo # {}
    /\ StopReady
    /\ ret' = ErrClientHasQuit
    /\ pc' = "wait"
    /\ UNCHANGED <<Handler, maxc, MaxControl, mu, stop, firedBy, tubes, todo,
                   cur, scanGot, res, wg, conn, qpc, sigchan, ready, nextID,
                   workers, reserved, invoked, alive, panicked>>

\* a select without the default case: with no room in MaxControl and stop
\* open the loop stays at the send until a worker makes room
ScanWaits(t) ==
    /\ alive
    /\ pc = "scan"
    /\ t \in todo
    /\ CanAcquire
    /\ ~StopReady
    /\ UNCHANGED <<Handler, maxc, MaxControl, mu, stop, firedBy, pc, tubes, todo,
                   cur, scanGot, res, ret, wg, conn, qpc, sigchan, ready, nextID,
                   workers, reserved, invoked, alive, panicked>>

\* l.84: no case is ready, the select takes default and the range goes on
ScanDefault(t) ==
    /\ alive
    /\ pc = "scan"
    /\ t \in todo
    /\ ~CanAcquire
    /\ ~StopReady
    /\ todo' = Visit(t)
    /\ UNCHANGED <<Handler, maxc, MaxControl, mu, stop, firedBy, pc, tubes, cur,
                   scanGot, res, ret, wg, conn, qpc, sigchan, ready, nextID,
                   workers, reserved, invoked, alive, panicked>>

\* l.86-88: the range is over, the loop reaches the second select
ScanEnd ==
    /\ alive
    /\ pc = "scan"
    /\ todo = {}
    /\ pc' = "idle"
    /\ scanGot' = [t \in AllTubes |-> 0]
    /\ UNCHANGED <<Handler, maxc, MaxControl, mu, stop, firedBy, tubes, todo,
                   cur, res, ret, wg, conn, qpc, sigchan, ready, nextID, workers,
                   reserved, invoked, alive, panicked>>

\* the broker answers TIMED_OUT or DEADLINE_SOON only when the tube has no
\* ready job; the connection can fail at any time
CanFail(e) ==
    (e.Err \in {"ErrTimeout", "ErrDeadline"} /\ e.Op = "reserve-with-timeout")
        => ready[cur] = <<>>

\* l.72: tube.Reserve(0) comes back with the oldest ready job of the tube
TubeReserveOK ==
    /\ alive
    /\ pc = "reserve"
    /\ ready[cur] # <<>>
    /\ LET r == Head(ready[cur])
       IN /\ res' = Res(r.ID, r.Body, NoErr)
          /\ reserved' = reserved (+) One([Tube |-> cur, ID |-> r.ID, Body |-> r.Body])
    /\ ready' = [ready EXCEPT ![cur] = Tail(@)]
    /\ pc' = "got"
    /\ UNCHANGED <<Handler, maxc, MaxControl, mu, stop, firedBy, tubes, todo,
                   cur, scanGot, ret, wg, conn, qpc, sigchan, nextID, workers,
                   invoked, alive, panicked>>

\* l.72: tube.Reserve(0) comes back with an error
TubeReserveErr(e) ==
    /\ alive
    /\ pc = "reserve"
    /\ CanFail(e)
    /\ res' = Res(0, <<>>, e)
    /\ pc' = "got"
    /\ UNCHANGED <<Handler, maxc, MaxControl, mu, stop, firedBy, tubes, todo,
                   cur, scanGot, ret, wg, conn, qpc, sigchan, ready, nextID,
                   workers, reserved, invoked, alive, panicked>>

\* the worker started with a job bound to the default tube, not to name
SpawnDefaultTube(name, id, body) ==
    One([job |-> NewJob("bs", "default", id, body), pc |-> "spawned"])

\* the goroutine l.75 starts: go c.work(wg, NewJob(bs, name, id, body))
Spawn(name, id, body) == One([job |-> NewJob("bs", name, id, body), pc |-> "spawned"])

\* l.73-75: err == nil: wg.Add(1) and start the worker
Dispatch ==
    /\ alive
    /\ pc = "got"
    /\ res.err = NoErr
    /\ wg' = wg + 1
    /\ workers' = workers (+) Spawn(cur, res.id, res.body)
    /\ scanGot' = [scanGot EXCEPT ![cur] = @ + 1]
    /\ res' = NoRes
    /\ cur' = ""
    /\ pc' = "scan"
    /\ UNCHANGED <<Handler, maxc, MaxControl, mu, stop, firedBy, tubes, todo,
                   ret, conn, qpc, sigchan, ready, nextID, reserved, invoked,
                   alive, panicked>>

\* l.76, 79-81: the error is a timeout or deadline: <-c.MaxControl
ReserveEmpty ==
    /\ alive
    /\ pc = "got"
    /\ res.err # NoErr
    /\ isTimeoutOrDeadline(res.err)
    /\ MaxControl' = MaxControl - 1
    /\ res' = NoRes
    /\ cur' = ""
    /\ pc' = "scan"
    /\ UNCHANGED <<Handler, maxc, mu, stop, firedBy, tubes, todo, scanGot, ret,
                   wg, conn, qpc, sigchan, ready, nextID, workers, reserved,
                   invoked, alive, panicked>>

\* l.76-78: any other error: c.Stop(); return err.  When the close inside
\* Stop panics, Reserve unwinds through its deferred calls instead.
ReserveFatal ==
    /\ alive
    /\ pc = "got"
    /\ res.err # NoErr
    /\ ~isTimeoutOrDeadline(res.err)
    /\ Stop("fatal")
    /\ IF ClosePanics
       THEN ret' = ClosePanic /\ panicked' = "Reserve"
       ELSE ret' = res.err /\ panicked' = panicked
    /\ cur' = ""
    /\ pc' = "wait"
    /\ UNCHANGED <<Handler, maxc, MaxControl, res, tubes, todo, scanGot, wg, conn,
                   qpc, sigchan, ready, nextID, workers, reserved, invoked, alive>>

\* l.88-90: the second select takes the receive on stop
IdleStop ==
    /\ alive
    /\ pc = "idle"
    /\ StopReady
    /\ ret' = ErrClientHasQuit
    /\ pc' = "wait"
    /\ UNCHANGED <<Handler, maxc, MaxControl, mu, stop, firedBy, tubes, todo,
                   cur, scanGot, res, wg, conn, qpc, sigchan, ready, nextID,
                   workers, reserved, invoked, alive, panicked>>

\* l.91, 66-69: the timer fires; the next iteration starts a new range
IdleTimer ==
    /\ alive
    /\ pc = "idle"
    /\ todo' = tubes
    /\ scanGot' = [t \in AllTubes |-> 0]
    /\ pc' = "scan"
    /\ UNCHANGED <<Handler, maxc, MaxControl, mu, stop, firedBy, tubes, cur, res,
                   ret, wg, conn, qpc, sigchan, ready, nextID, workers, reserved,
                   invoked, alive, panicked>>

\* wg.Wait() waiting for quitOnSignal only: the workers never added
WaitReturnsEarly == qpc = "done"

\* wg.Wait() returns
WaitReturns == wg = 0

\* the deferred calls in the other order: bs.Close() first, then wg.Wait()
WaitAfterClose ==
    /\ alive
    /\ pc = "wait"
    /\ IF conn = "open"
       THEN conn' = "closed" /\ pc' = pc
       ELSE WaitReturns /\ pc' = "close" /\ conn' = conn
    /\ UNCHANGED <<Handler, maxc, MaxControl, mu, stop, firedBy, tubes, todo,
                   cur, scanGot, res, ret, wg, qpc, sigchan, ready, nextID,
                   workers, reserved, invoked, alive, panicked>>

\* l.64: the deferred wg.Wait(), the first deferred call to run
Wait ==
    /\ alive
    /\ pc = "wait"
    /\ WaitReturns
    /\ pc' = "close"
    /\ UNCHANGED <<Handler, maxc, MaxControl, mu, stop, firedBy, tubes, todo,
                   cur, scanGot, res, ret, wg, conn, qpc, sigchan, ready, nextID,
                   workers, reserved, invoked, alive, panicked>>

\* l.63: the deferred bs.Close(), then Reserve is left: by return, or by
\* the panic going on to the caller, which ends the process
Close ==
    /\ alive
    /\ pc = "close"
    /\ conn' = "closed"
    /\ IF ret.type = "panic"
       THEN pc' = "panicked" /\ alive' = FALSE
       ELSE pc' = "returned" /\ alive' = alive
    /\ UNCHANGED <<Handler, maxc, MaxControl, mu, stop, firedBy, tubes, todo,
                   cur, scanGot, res, ret, wg, qpc, sigchan, ready, nextID,
                   workers, reserved, invoked, panicked>>


\* ------------------------------------------- Client.quitOnSignal (l.124-135)
\* l.127-128: make sigchan and register it for SIGINT and SIGTERM
QNotify ==
    /\ alive
    /\ qpc = "start"
    /\ qpc' = "select"
    /\ UNCHANGED <<Handler, maxc, MaxControl, mu, stop, firedBy, pc, tubes, todo,
                   cur, scanGot, res, ret, wg, conn, sigchan, ready, nextID,
                   workers, reserved, invoked, alive, panicked>>

\* l.131: the select takes the receive on stop; the deferred wg.Done() runs
QStop ==
    /\ alive
    /\ qpc = "select"
    /\ StopReady
    /\ qpc' = "done"
    /\ wg' = wg - 1
    /\ UNCHANGED <<Handler, maxc, MaxControl, mu, stop, firedBy, pc, tubes, todo,
                   cur, scanGot, res, ret, conn, sigchan, ready, nextID, workers,
                   reserved, invoked, alive, panicked>>

\* l.132: the select takes the receive on sigchan
QSignal ==
    /\ alive
    /\ qpc = "select"
    /\ sigchan > 0
    /\ sigchan' = sigchan - 1
    /\ qpc' = "stop"
    /\ UNCHANGED <<Handler, maxc, MaxControl, mu, stop, firedBy, pc, tubes, todo,
                   cur, scanGot, res, ret, wg, conn, ready, nextID, workers,
                   reserved, invoked, alive, panicked>>

\* l.133: c.Stop(), then the deferred wg.Done(); a panic of the close
\* leaves the goroutine after wg.Done() and ends the process
QCallStop ==
    /\ alive
    /\ qpc = "stop"
    /\ Stop("signal")
    /\ IF ClosePanics
       THEN alive' = FALSE /\ panicked' = "quitOnSignal"
       ELSE UNCHANGED <<alive, panicked>>
    /\ qpc' = "done"
    /\ wg' = wg - 1
    /\ UNCHANGED <<Handler, maxc, MaxControl, pc, tubes, todo, cur, scanGot, res,
                   ret, conn, sigchan, ready, nextID, workers, reserved, invoked>>

\* --------------------------------------------------- Client.work (l.118-122)
Running == BagToSet(workers)

Move(w, to) == (workers (-) One(w)) (+) One([w EXCEPT !.pc = to])

\* l.120: c.Handler.Work(j) is called
WorkStart(w) ==
    /\ alive
    /\ w.pc = "spawned"
    /\ invoked' = invoked (+) One(w.job)
    /\ workers' = Move(w, "working")
    /\ UNCHANGED <<Handler, maxc, MaxControl, mu, stop, firedBy, pc, tubes, todo,
                   cur, scanGot, res, ret, wg, conn, qpc, sigchan, ready, nextID,
                   reserved, alive, panicked>>

\* l.120-121: Handler.Work returns; <-c.MaxControl takes one token out
WorkReturn(w) ==
    /\ alive
    /\ w.pc = "working"
    /\ MaxControl > 0
    /\ MaxControl' = MaxControl - 1
    /\ workers' = Move(w, "released")
    /\ UNCHANGED <<Handler, maxc, mu, stop, firedBy, pc, tubes, todo, cur,
                   scanGot, res, ret, wg, conn, qpc, sigchan, ready, nextID,
                   reserved, invoked, alive, panicked>>

\* l.120: Handler.Work panics: l.121 is skipped, the deferred wg.Done()
\* runs and the panic ends the process
WorkPanic(w) ==
    /\ alive
    /\ w.pc = "working"
    /\ workers' = workers (-) One(w)
    /\ wg' = wg - 1
    /\ alive' = FALSE
    /\ panicked' = "work"
    /\ UNCHANGED <<Handler, maxc, MaxControl, mu, stop, firedBy, pc, tubes, todo,
                   cur, scanGot, res, ret, conn, qpc, sigchan, ready, nextID,
                   reserved, invoked>>

\* client_test.go l.38-40: the handler gives its job back, job.Release(0, 0),
\* and returns: the broker has the job ready again in its tube and no longer
\* holds it reserved; <-c.MaxControl (l.121) takes the token out.  To keep
\* the workers countable no earlier worker of this job is still before its
\* wg.Done()
WorkRelease(w) ==
    /\ alive
    /\ w.pc = "working"
    /\ MaxControl > 0
    /\ [w EXCEPT !.pc = "released"] \notin Running
    /\ ready' = [ready EXCEPT ![w.job.Tube] = Append(@, [ID |-> w.job.ID, Body |-> w.job.Body])]
    /\ reserved' = reserved (-) One([Tube |-> w.job.Tube, ID |-> w.job.ID, Body |-> w.job.Body])
    /\ invoked' = invoked (-) One(w.job)
    /\ MaxControl' = MaxControl - 1
    /\ workers' = Move(w, "released")
    /\ UNCHANGED <<Handler, maxc, mu, stop, firedBy, pc, tubes, todo, cur,
                   scanGot, res, ret, wg, conn, qpc, sigchan, nextID, alive,
                   panicked>>

\* l.119: the deferred wg.Done(); the goroutine is over
WorkDone(w) ==
    /\ alive
    /\ w.pc = "released"
    /\ workers' = workers (-) One(w)
    /\ wg' = wg - 1
    /\ UNCHANGED <<Handler, maxc, MaxControl, mu, stop, firedBy, pc, tubes, todo,
                   cur, scanGot, res, ret, conn, qpc, sigchan, ready, nextID,
                   reserved, invoked, alive, panicked>>

\* ------------------------------------------------------------ environment
\* a producer puts a job into tube t
Put(t) ==
    /\ alive
    /\ nextID <= MaxJobs
    /\ t \in tubesOf(Handler)
    /\ ready' = [ready EXCEPT ![t] = Append(@, [ID |-> nextID, Body |-> BodyOf(nextID)])]
    /\ nextID' = nextID + 1
    /\ UNCHANGED <<Handler, maxc, MaxControl, mu, stop, firedBy, pc, tubes, todo,
                   cur, scanGot, res, ret, wg, conn, qpc, sigchan, workers,
                   reserved, invoked, alive, panicked>>

\* SIGINT or SIGTERM reaches the process once sigchan is registered: sent to
\* sigchan without blocking, dropped when its buffer of one is full
Signal ==
    /\ alive
    /\ qpc \in {"select", "stop", "done"}
    /\ sigchan = 0
    /\ sigchan' = 1
    /\ UNCHANGED <<Handler, maxc, MaxControl, mu, stop, firedBy, pc, tubes, todo,
                   cur, scanGot, res, ret, wg, conn, qpc, ready, nextID, workers,
                   reserved, invoked, alive, panicked>>

\* ---------------------------------------------------------- specification
Loop ==
    \/ ReserveStart
    \/ \E t \in AllTubes : ScanAcquire(t)
    \/ ScanStop
    \/ \E t \in AllTubes : ScanDefault(t)
    \/ ScanEnd
    \/ TubeReserveOK
    \/ \E e \in ReserveErrors : TubeReserveErr(e)
    \/ Dispatch
    \/ ReserveEmpty
    \/ ReserveFatal
    \/ IdleStop
    \/ IdleTimer
    \/ Wait
    \/ Close

Bridge == QNotify \/ QStop \/ QSignal \/ QCallStop

Work ==
    \/ \E w \in Running : WorkStart(w)
    \/ \E w \in Running : WorkReturn(w)
    \/ \E w \in Running : WorkDone(w)

Crash == \E w \in Running : WorkPanic(w)

Env ==
    \/ CallStop
    \/ Signal
    \/ \E t \in AllTubes : Put(t)

Next == Loop \/ Bridge \/ Work \/ Crash \/ Env

Spec == Init /\ [][Next]_vars


\* the loop moves on; a select takes any ready case, so the stop cases get
\* their turn; goroutines that can run do run.  Handlers return (Crash, a
\* handler that panics, is under no fairness); the environment owes nothing.
FairSpec ==
    /\ Spec
    /\ WF_vars(Loop)
    /\ SF_vars(ScanStop)
    /\ SF_vars(IdleStop)
    /\ WF_vars(Bridge)
    /\ WF_vars(Work)

\* ------------------------------------- handlers that give their job back
Requeue == \E w \in Running : WorkRelease(w)

NextRelease == Next \/ Requeue

\* a router with the tubes t1 and t2 and a MaxControl with fewer places
\* than there are tubes
InitRelease == Init /\ Handler.Tubes = MuxTubes /\ maxc < Len(MuxTubes)

SpecRelease == InitRelease /\ [][NextRelease]_vars

\* the worker goroutine of the job with this id takes its next step
WorkOf(id) ==
    \E w \in Running :
        /\ w.job.ID = id
        /\ WorkStart(w) \/ WorkReturn(w) \/ WorkRelease(w) \/ WorkDone(w)

\* the loop moves on and goroutines that can run do run, as in FairSpec;
\* every handler returns, whatever the other workers do; and a tube whose
\* send on MaxControl is ready again and again is taken again and again: the
\* range comes to any tube first in some scan
FairSpecRelease ==
    /\ SpecRelease
    /\ WF_vars(Loop)
    /\ WF_vars(Bridge)
    /\ \A id \in 1..MaxJobs : WF_vars(WorkOf(id))
    /\ \A t \in Range(MuxTubes) : SF_vars(ScanAcquire(t))

\* ================================================================ claims
\* Reserve has been left: by return, or by a panic passing to its caller
Left == pc \in {"returned", "panicked"}

\* handler invocations in flight: Handler.Work called and not yet over
InFlight == BagCardinality([w \in {x \in Running : x.pc = "working"} |-> workers[w]])

\* C1: the tokens outstanding in MaxControl, and so the handler invocations
\* in flight at the same time, never exceed the capacity of MaxControl; with
\* a capacity of 1 no two handler invocations overlap.
C1_TokensBounded ==
    /\ MaxControl <= maxc
    /\ InFlight <= MaxControl
    /\ InFlight <= maxc
    /\ maxc = 1 => InFlight <= 1

\* C1 witness: capacity 1, two tubes; the job of one tube has been handled
\* and the job of the other is being handled while the only token is out.
C1_Witness ==
    /\ maxc = 1
    /\ MaxControl = 1
    /\ \E w \in Running : /\ w.pc = "working"
                          /\ \E j \in BagToSet(invoked) : j.Tube # w.job.Tube

\* C2: when Reserve has been left, on whichever path, no worker started
\* during the run is still running.
C2_NoWorkerAfterReturn == Left => workers = EmptyBag

\* C2 witness: Reserve has returned after a run in which two handlers ran.
C2_Witness == pc = "returned" /\ BagCardinality(invoked) >= 2

\* C3 (as claimed): after Reserve has returned no token is outstanding.
C3_Claim == pc = "returned" => MaxControl = 0


\* C4 (as claimed): when the stop channel was closed by a caller's Stop or
\* by quitOnSignal after a signal, Reserve is left with ErrClientHasQuit as
\* its result, whichever of the two it was.
C4_Claim == (Left /\ firedBy \in {"caller", "signal"}) => ret = ErrClientHasQuit

\* C5 (as claimed): when a reservation has failed with an error that is no
\* timeout or deadline, Reserve is left by returning exactly that error.
C5_Claim == (Left /\ res.err # NoErr) => (pc = "returned" /\ ret = res.err)

\* C7 (as claimed): once the stop channel is closed, and handlers return,
\* Reserve eventually returns.
C7_Claim == (stop = "closed") ~> (pc = "returned" \/ panicked = "work")


\* the failure C6 is about: operation reserve-with-timeout, cause ErrTimeout
\* or ErrDeadline
NothingReady(e) ==
    /\ e.type = "ConnError"
    /\ e.Op = "reserve-with-timeout"
    /\ e.Err \in {"ErrTimeout", "ErrDeadline"}

\* C6: a reservation failure of operation reserve-with-timeout with cause
\* ErrTimeout or ErrDeadline is never what Reserve is left with, and the
\* step that handles it gives the token back, fires no stop, sets no result
\* and goes back to the range with the tubes not yet visited unchanged.
C6_TimeoutAbsorbed ==
    /\ [](~NothingReady(ret))
    /\ [][(pc = "got" /\ NothingReady(res.err) /\ pc' # "got")
            => /\ pc' = "scan"
               /\ MaxControl' = MaxControl - 1
               /\ todo' = todo
               /\ stop' = stop
               /\ ret' = NoErr]_vars

\* C6 witness: a deadline failure is about to be handled while another tube
\* of the range is still to be visited.
C6_Witness ==
    /\ pc = "got"
    /\ res.err = ConnError("reserve-with-timeout", "ErrDeadline")
    /\ todo # {}
    /\ stop = "open"

\* Reserve is running: it has started and has not been left
InRun == pc \notin {"init", "returned", "panicked"}

\* C8 (as claimed): no call of Stop made by a caller during a run panics.
C8_Claim == ~(panicked = "Stop" /\ InRun)

\* what the broker handed out for job j
ResOf(j) == [Tube |-> j.Tube, ID |-> j.ID, Body |-> j.Body]

\* the reservation r is the one the loop holds between l.72 and l.75
Pending(r) ==
    IF pc = "got" /\ res.err = NoErr /\ r = [Tube |-> cur, ID |-> res.id, Body |-> res.body]
    THEN 1 ELSE 0

\* workers started for r whose Handler.Work call is still to come
Spawned(r) ==
    BagCardinality([w \in {x \in Running : x.pc = "spawned" /\ ResOf(x.job) = r}
                      |-> workers[w]])

\* Handler.Work calls made with a job built from r
Invoked(r) ==
    BagCardinality([j \in {x \in BagToSet(invoked) : ResOf(x) = r} |-> invoked[j]])

\* C9: every handler invocation got a job built from one reservation (same
\* tube, id and body), every reservation is held by the loop for dispatch,
\* by one started worker, or has had its one invocation; never two of these.
C9_OneInvocationPerReservation ==
    /\ \A j \in BagToSet(invoked) : ResOf(j) \in BagToSet(reserved)
    /\ \A w \in Running : ResOf(w.job) \in BagToSet(reserved)
    /\ \A r \in BagToSet(reserved) : Pending(r) + Spawned(r) + Invoked(r) = 1

\* C9 witness: jobs of two tubes have been reserved and both handed to
\* their handler invocation.
C9_Witness ==
    \E j, k \in BagToSet(invoked) : j.Tube # k.Tube /\ j.ID # k.ID

\* C10: within one range over the tubes no tube has more than one job
\* reserved.
C10_OnePerTubePerScan == \A t \in AllTubes : scanGot[t] <= 1

\* C10 witness: two tubes, capacity at least two, the range is over and has
\* reserved one job from each tube.
C10_Witness ==
    /\ Cardinality(tubes) = 2
    /\ maxc >= 2
    /\ pc = "scan"
    /\ todo = {}
    /\ \A t \in tubes : scanGot[t] = 1

\* a close(c.stop) found the channel already closed by another of the three
\* places that fire it: the panicking close is the fatal path's or
\* quitOnSignal's, or a caller's Stop after the bridge or the fatal path fired
SecondClose ==
    /\ stop = "closed"
    /\ \/ panicked \in {"Reserve", "quitOnSignal"}
       \/ panicked = "Stop" /\ firedBy # "caller" /\ pc \notin {"init", "returned"}

\* C11: in every interleaving of a caller's Stop, quitOnSignal and the fatal
\* path of Reserve, c.stop goes from open to closed once and is never closed
\* a second time during the run.
C11_Claim == ~SecondClose

\* the worker goroutine w ends in this step: its deferred wg.Done() runs
Ends(w) == workers' = workers (-) One(w) /\ wg' = wg - 1

\* C12: the token of a reserved job is released once when the handler
\* invocation ends, also when the handler ends abnormally: no worker reaches
\* its wg.Done() with its token still in MaxControl.
C12_Claim ==
    [][\A w \in Running : Ends(w) => w.pc = "released" /\ MaxControl' = MaxControl]_vars

\* C13 as stated: on every exit path the connection is closed first: it is
\* already closed whenever Reserve blocks in wg.Wait(), and closed once
\* Reserve has been left.
C13_Claim ==
    /\ pc = "wait" => conn = "closed"
    /\ Left => conn = "closed"

\* C13, amended: on every exit path the connection is closed, and closed
\* last: bs.Close() runs only after wg.Wait() has returned, so the connection
\* stays open while Reserve waits and no worker is left when it is closed.
C13_ClosedAfterWait ==
    /\ pc = "wait" => conn = "open"
    /\ conn = "closed" => wg = 0 /\ workers = EmptyBag
    /\ Left => conn = "closed"

\* Reserve has returned with the connection closed after a worker whose
\* handler had been called was waited for
C13_Witness ==
    /\ pc = "returned"
    /\ conn = "closed"
    /\ ret = ErrClientHasQuit
    /\ BagCardinality(invoked) = 1

\* C14: once c.stop is closed Reserve starts no new work: it takes no further
\* token, issues no further reservation and spawns no further worker, also
\* when a token is free as the scan reaches the next tube.
C14_Claim ==
    [][stop = "closed" =>
         /\ MaxControl' <= MaxControl
         /\ pc' = "reserve" => pc = "reserve"
         /\ BagCardinality(workers') <= BagCardinality(workers)]_vars

\* the workers that have not yet taken their token out of MaxControl
Holders == [w \in {x \in Running : x.pc # "released"} |-> CopiesIn(w, workers)]

\* the loop of Reserve takes a step of the per-tube select
SelectStep == pc = "scan" /\ todo # {} /\ (todo' # todo \/ pc' # pc)

\* C15: admission does not block.  At every tube the select has a case to
\* take; with all tokens held the loop goes past the tube (or leaves on stop)
\* without a token, without a reservation and without touching the broker;
\* a reservation is only in progress while MaxControl holds a token taken for
\* that attempt, on top of those of the workers.
C15_AdmissionNonBlocking ==
    /\ [](alive /\ pc = "scan" =>
            \A t \in todo : ENABLED (ScanAcquire(t) \/ ScanStop \/ ScanDefault(t)))
    /\ [](pc \in {"reserve", "got"} => MaxControl > BagCardinality(Holders))
    /\ [][SelectStep /\ MaxControl = maxc =>
            /\ pc' \in {"scan", "wait"}
            /\ MaxControl' = MaxControl
            /\ reserved' = reserved
            /\ ready' = ready]_vars

\* the scan is at a tube with a ready job while the handlers in flight hold
\* every token and stop is open
C15_Witness ==
    /\ alive
    /\ pc = "scan"
    /\ stop = "open"
    /\ MaxControl = maxc
    /\ BagCardinality(Holders) = maxc
    /\ \E t \in todo : ready[t] # <<>>

\* the place of tube t in the insertion order of the router's tube names
Position(t) == CHOOSE i \in DOMAIN Handler.Tubes : Handler.Tubes[i] = t

\* C16: within every scan the tubes are polled in the insertion order of the
\* router's tube names: the tube polled next comes before every tube still to
\* be polled in this scan.
C16_Claim ==
    [][\A t \in todo \ todo' : \A u \in todo' : Position(t) < Position(u)]_vars

\* the run is over or ending: stop has been fired or the process has ended
Ended == stop # "open" \/ ~alive

\* tube.Reserve(0) has just come back with a job of tube t
ReservedFrom(t) == pc = "got" /\ cur = t /\ res.err = NoErr

\* C17: a saturated tube cannot starve another: a tube of the run with a
\* ready job has a job reserved eventually, as long as handlers return and
\* neither stop nor a fatal error occurs, also when another tube always has
\* ready jobs and MaxControl has fewer places than there are tubes.
C17_Claim ==
    \A t \in AllTubes :
        (t \in tubes /\ ready[t] # <<>>) ~> (ReservedFrom(t) \/ Ended)

\* C17, amended: a saturated tube never keeps the scan from the other tubes,
\* and that is all: a scan that comes to its end has polled every tube; a
\* poll that finds MaxControl full goes on at once; a poll of tube t that
\* finds a place and stop open takes the token for t, and its tube.Reserve(0)
\* gives a ready job of t or a fatal error, never `nothing ready`.  A tube
\* whose every poll finds MaxControl full is never served.
C17_PolledEveryScan ==
    /\ [](alive /\ pc = "scan" /\ ~CanAcquire /\ ~StopReady =>
            \A t \in todo : ENABLED ScanDefault(t))
    /\ [][pc = "scan" /\ pc' = "idle" => todo = {}]_vars
    /\ [][\A t \in todo :
            pc = "scan" /\ t \notin todo' /\ CanAcquire /\ ~StopReady =>
                pc' = "reserve" /\ cur' = t /\ MaxControl' = MaxControl + 1]_vars
    /\ [][pc = "reserve" /\ pc' = "got" /\ ready[cur] # <<>> =>
            ~NothingReady(res'.err) /\ (res'.err = NoErr => res'.id = Head(ready[cur]).ID)]_vars

\* tube t2 has a ready job and has been passed over in this scan: the only
\* token is held by the handler of a job of tube t1, running since before
\* the scan began
C17_Witness ==
    /\ alive
    /\ pc = "scan"
    /\ stop = "open"
    /\ todo = {"t1"}
    /\ ready["t2"] # <<>>
    /\ MaxControl = maxc
    /\ \E w \in Running : w.pc = "working" /\ w.job.Tube = "t1"

\* the stop signal is fired in this step: close(c.stop) closes the channel
Fires == stop = "open" /\ stop' = "closed"

\* the firing itself leaves the workers and the tokens in MaxControl alone
StopFrame == [][Fires => workers' = workers /\ MaxControl' = MaxControl]_vars

\* C18: firing the stop signal changes nothing about the handlers in flight:
\* the step that fires it, whichever of the three places takes it, leaves the
\* workers and their tokens as they are, and every worker in flight at the
\* firing gets to its own end (a handler that panics ends by itself).  After
\* a firing by the fatal path no worker is started, so the workers whose
\* handler is not yet over then were in flight when it fired.
C18_Claim ==
    /\ StopFrame
    /\ (firedBy = "fatal" /\ Holders # EmptyBag) ~> (Holders = EmptyBag \/ panicked = "work")

\* C19: whenever the loop is not in the middle of a reservation attempt
\* (between tubes, in the idle sleep, after it has left the loop) the tokens
\* in MaxControl are as many as the workers spawned that have not yet taken
\* their token out.
C19_Claim == pc \notin {"reserve", "got"} => MaxControl = BagCardinality(Holders)

\* C20: Stop is safe at every point of the life of a Client: a Stop before
\* Reserve has made the stop channel, or after a run has returned, does not
\* crash its caller.
C20_Claim == ~(pc \in {"init", "returned"} /\ panicked = "Stop")

====
